---- MODULE Spec2Model ----
(***************************************************************************)
(* Model of the legal-research pipeline (src/webapp.py) and of its         *)
(* Markdown formatters (src/markdown.py).                                  *)
(*                                                                         *)
(* Floating-point confidence scores are carried in hundredths (0.80 is 80) *)
(* and rendered text is carried as a sequence of tokens.  The source's     *)
(* non-ASCII glyphs are written with ASCII stand-ins, named below.         *)
(***************************************************************************)
EXTENDS Naturals, Integers, Sequences, FiniteSets, TLC

(***************************************************************************)
(* Bounds                                                                  *)
(***************************************************************************)
NumInvocations == 2

Invocations == 1..NumInvocations

Queries == {"q1", "q2"}

\* what the retrieval agent can return for a query
Contexts(q) == {"passages for " \o q}

\* scores a model can emit, in hundredths: inside and outside [0.0, 1.0]
ConfidenceScores == {42, 150}

(***************************************************************************)
(* Values                                                                  *)
(***************************************************************************)
None == "None"

NoAnswer == [shape |-> "None", analysis |-> "None", confidence_score |-> 0]

NoExc == [stage |-> 0, kind |-> "None"]

NoResult == << >>

\* what the formulation model can emit before the schema is applied
FormulationOutputs ==
    [shape : {"lra"}, analysis : {"formulated"}, confidence_score : ConfidenceScores]
        \cup {[shape |-> "malformed", analysis |-> "None", confidence_score |-> 0]}

\* what the verification model can emit before the schema is applied
VerificationOutputs ==
    [shape : {"lra"}, analysis : {"web-verified"}, confidence_score : ConfidenceScores]
        \cup {[shape |-> "malformed", analysis |-> "None", confidence_score |-> 0]}

\* class LegalResearchAnswer: the fields must be present and typed; the
\* confidence_score field is a plain float with no range constraint
LegalResearchAnswer(raw) == raw.shape = "lra"

\* failures that derive from Exception, and the one that derives from
\* BaseException only (asyncio.CancelledError)
ExceptionKinds == {"tool_unavailable", "timeout", "malformed_output", "capability_error"}

BaseExceptionKinds == {"cancelled"}

(***************************************************************************)
(* run_pipeline: the pieces of its text                                    *)
(***************************************************************************)
\* the f-strings are carried as records, one field per labelled section
input_without_query(q, ctx) ==
    [Query |-> ctx, Context |-> ctx,
     Task |-> "Synthesize LegalResearchAnswer per schema."]

input_for_formulation(q, ctx) ==
    [Query |-> q, Context |-> ctx,
     Task |-> "Synthesize LegalResearchAnswer per schema."]

\* final_analysis.model_dump_json(indent=2): every field of the schema
model_dump_json(a) ==
    [analysis |-> a.analysis, confidence_score |-> a.confidence_score]

verification_input(q, a) ==
    [Query |-> q, Analysis |-> model_dump_json(a),
     Task |-> "Task: Web-verify via MCP; update if needed; return LegalResearchAnswer."]

\* the try block of run_pipeline encloses the stage-3 call only
TryCoversAll(stage) == TRUE

TryCovers(stage) == stage = 3

\* `except Exception`
ExceptTimeoutOnly(kind) == kind = "timeout"

ExceptException(kind) == kind \in ExceptionKinds

\* the answer run_pipeline returns after a successful verification
MergedAnswer(candidate, verified) ==
    [candidate EXCEPT !.confidence_score = verified.confidence_score]

ReturnedOnSuccess(candidate, verified) == verified

\* the answer run_pipeline returns from its except handler
ReturnedOnFallback(candidate, verified) == candidate

\* MCPServerStdio(params=...) is constructed inside the call: one server
\* process per call of run_verification_with_scoped_server
SharedServer(i) == 0

NewServer(i) == i

\* `async with` runs __aexit__ on every way out of its body
ExitOnSuccessOnly(e) == e = NoExc

AsyncWithExits(e) == TRUE

(***************************************************************************)
(* Text                                                                    *)
(***************************************************************************)
\* ASCII stand-ins for the glyphs of src/markdown.py
SEP == " * "

DASH == " -- "

GREEN == "(green)"

YELLOW == "(yellow)"

RED == "(red)"

SCC_MARK == "(star) SCC"

\* the six backquotes returned for a value that is no answer
PLACEHOLDER == "(6 backquotes)"

Whitespace == {" ", "\n"}

\* Python truthiness of an optional string, and `a or b`
Truthy(a) == a # None /\ a # ""

Or(a, b) == IF Truthy(a) THEN a ELSE b

NonEmpty(b) == b # ""

\* sep.join(parts) for strings: the parts with sep between them
RECURSIVE JoinTokens(_, _)
JoinTokens(parts, sep) ==
    IF Len(parts) = 0 THEN << >>
    ELSE IF Len(parts) = 1 THEN <<parts[1]>>
    ELSE <<parts[1], sep>> \o JoinTokens(Tail(parts), sep)

\* sep.join(blocks) for pieces of text that are token sequences themselves
RECURSIVE Join(_, _)
Join(blocks, sep) ==
    IF Len(blocks) = 0 THEN << >>
    ELSE IF Len(blocks) = 1 THEN blocks[1]
    ELSE blocks[1] \o <<sep>> \o Join(Tail(blocks), sep)

\* str.strip()
RECURSIVE lstrip(_)
lstrip(t) ==
    IF Len(t) > 0 /\ Head(t) \in Whitespace THEN lstrip(Tail(t)) ELSE t

RECURSIVE rstrip(_)
rstrip(t) ==
    IF Len(t) > 0 /\ t[Len(t)] \in Whitespace THEN rstrip(SubSeq(t, 1, Len(t) - 1)) ELSE t

strip(t) == rstrip(lstrip(t))

\* f"{score:.2f}" for a score in hundredths
Format2f(score) ==
    ToString(score \div 100) \o "." \o ToString((score \div 10) % 10) \o ToString(score % 10)

NoContext == [kind |-> "other", items |-> << >>, text |-> "None"]

(***************************************************************************)
(* lra_to_markdown                                                         *)
(***************************************************************************)
\* the severity marker of a score
emoji_strict(score) ==
    IF score > 80 THEN GREEN ELSE IF score > 50 THEN YELLOW ELSE RED

emoji(score) ==
    IF score >= 80 THEN GREEN ELSE IF score >= 50 THEN YELLOW ELSE RED

\* the metadata clause of a citation bullet
meta_unfiltered(cite, juris, scc) == JoinTokens(<<cite, juris, scc>>, SEP)

meta(cite, juris, scc) ==
    JoinTokens(SelectSeq(<<cite, juris, scc>>, NonEmpty), SEP)

\* one bullet of the Citations section
CitationLine(c) ==
    LET title == Or(c.title, "Source")
        cite == Or(c.citation, "")
        link == Or(c.link, "")
        juris == Or(c.jurisdiction, "")
        scc == IF c.SCC_citation THEN SCC_MARK ELSE ""
        m == meta(cite, juris, scc)
        label == IF link # "" THEN <<"[", title, "](", link, ")">> ELSE <<title>>
    IN  <<"- ">> \o label \o (IF Len(m) > 0 THEN <<DASH>> \o m ELSE << >>)

CitationLines(cits) == [k \in 1..Len(cits) |-> CitationLine(cits[k])]

\* the clauses of the metadata line
meta_items(d) ==
    (IF d.confidence_score # << >>
     THEN << <<emoji(d.confidence_score[1]), " **Confidence:** ",
               Format2f(d.confidence_score[1])>> >>
     ELSE << >>)
    \o
    (IF Truthy(d.judgement)
     THEN << <<"(scales) **Status:** ", d.judgement>> >>
     ELSE << >>)

Section(heading, text) == <<heading, "\n">> \o strip(text)

lra_to_markdown(lra) ==
    IF lra.kind \notin {"model", "dict"}
    THEN <<PLACEHOLDER>>
    ELSE
        LET d == lra
            core == << Section("#### Issue", d.issue), <<"---">>,
                       Section("#### Short Answer", d.short_answer), <<"---">>,
                       Section("#### Legal Rule", d.rule), <<"---">>,
                       Section("#### Analysis", d.analysis), <<"---">>,
                       Section("#### Conclusion", d.conclusion) >>
            cits == IF Len(d.citations) > 0
                    THEN << <<"---">>, <<"#### Citations">>,
                            Join(CitationLines(d.citations), "\n") >>
                    ELSE << >>
            items == meta_items(d)
            tail == IF Len(items) > 0
                    THEN << <<"---">>, Join(items, SEP) >>
                    ELSE << >>
        IN  Join(core \o cits \o tail, "\n\n")

\* the answers handed to lra_to_markdown
MaxCitations == 1

CitationValues ==
    [title : {"Case X"},
     citation : {"", "[2020] 1 SCC 1"},
     link : {None, "http://x"},
     jurisdiction : {None, "Federal"},
     SCC_citation : BOOLEAN]

RECURSIVE SeqsUpTo(_, _)
SeqsUpTo(S, n) ==
    IF n = 0 THEN {<< >>}
    ELSE LET shorter == SeqsUpTo(S, n - 1)
         IN  shorter \cup {Append(t, x) : t \in shorter, x \in S}

MaxScore == 100

AnswerValues ==
    [kind : {"model"},
     issue : {<< >>, <<" ", "Whether X", "\n">>},
     short_answer : {<<"Yes.">>},
     rule : {<<"Rule.">>},
     analysis : {<<"Because.">>},
     conclusion : {<<"So.">>},
     citations : SeqsUpTo(CitationValues, MaxCitations),
     judgement : {None, "affirmed"},
     confidence_score : {<< >>} \cup {<<s>> : s \in 0..MaxScore}]

NotAnAnswer ==
    [kind |-> "other", issue |-> << >>, short_answer |-> << >>, rule |-> << >>,
     analysis |-> << >>, conclusion |-> << >>, citations |-> << >>,
     judgement |-> None, confidence_score |-> << >>]

(***************************************************************************)
(* format_retrieved_context                                                *)
(***************************************************************************)
MaxItems == 2

\* an element of a list context: a dict (an absent key reads as None) or
\* any other value, carried by its text
DictItems ==
    [isdict : {TRUE},
     title : {None, "", "Case X"},
     source : {None, "src"},
     content : {None, "", "Held that..."},
     text : {None, "txt"},
     raw : {None}]

OtherItems ==
    {[isdict |-> FALSE, title |-> None, source |-> None, content |-> None,
      text |-> None, raw |-> "raw passage"]}

DistinctKeys(pairs) ==
    \A a, b \in 1..Len(pairs) : pairs[a][1] = pairs[b][1] => a = b

ContextValues ==
    {[kind |-> "list", items |-> its, text |-> None] :
        its \in SeqsUpTo(DictItems \cup OtherItems, MaxItems)}
    \cup
    {[kind |-> "dict", items |-> kvs, text |-> None] :
        kvs \in {p \in SeqsUpTo({<<"A", "a">>, <<"B", "b">>}, MaxItems) : DistinctKeys(p)}}
    \cup
    {[kind |-> "other", items |-> << >>, text |-> "plain text"]}

ReprEntry(k, v) == IF v = None THEN "" ELSE "'" \o k \o "': '" \o v \o "', "

\* str(item)
str(item) ==
    IF item.isdict
    THEN "{" \o ReprEntry("title", item.title) \o ReprEntry("source", item.source)
             \o ReprEntry("content", item.content) \o ReprEntry("text", item.text) \o "}"
    ELSE item.raw

\* item.get("title") or item.get("source") or f"Document {i}"
item_title_source_first(item, i) ==
    Or(Or(item.source, item.title), "Document " \o ToString(i))

item_title(item, i) ==
    Or(Or(item.title, item.source), "Document " \o ToString(i))

\* item.get("content") or item.get("text") or str(item)
item_content(item) == Or(Or(item.content, item.text), str(item))

\* the text appended for element i of a list
ItemBlock(i, item) ==
    IF item.isdict
    THEN <<"\n", "**", ToString(i), ". ", item_title(item, i), "**", "\n",
           "> ", item_content(item)>>
    ELSE <<"\n", "**", ToString(i), ".**", "\n", "> ", str(item)>>

format_retrieved_context(c) ==
    IF c.kind = "dict"
    THEN Join(<< <<"**Source documents:**">> >>
              \o [k \in 1..Len(c.items) |->
                     <<"- **", c.items[k][1], ":** ", c.items[k][2]>>],
              "\n")
    ELSE IF c.kind = "list"
    THEN Join(<< <<"**Source documents:**">> >>
              \o [k \in 1..Len(c.items) |-> ItemBlock(k, c.items[k])],
              "\n")
    ELSE <<c.text>>

(***************************************************************************)
(* State                                                                   *)
(***************************************************************************)
VARIABLES
    pc,                      \* position of each run_pipeline invocation
    user_query,
    retrieved_context,
    final_analysis,
    final_verified_analysis,
    exc,                     \* the exception raised in the invocation, if any
    result,                  \* what run_pipeline returned
    servers,                 \* open MCP server connections: <<server, owner>>
    server_users,            \* <<server, invocation>>: who ran an agent on it
    calls,                   \* the Runner.run calls of each invocation
    printed,                 \* what each invocation printed
    fpc,                     \* position of the formatter call
    lra,                     \* argument of lra_to_markdown
    markdown,                \* what lra_to_markdown returned
    context,                 \* argument of format_retrieved_context
    context_markdown         \* what format_retrieved_context returned

pvars == <<pc, user_query, retrieved_context, final_analysis,
           final_verified_analysis, exc, result, servers, server_users,
           calls, printed>>

fvars == <<fpc, lra, markdown, context, context_markdown>>

vars == <<pvars, fvars>>

Call(stage, input) ==
    [stage |-> stage, input |-> input, outcome |-> "running", output |-> None]

\* the last call of cs ends
Finish(cs, outcome, output) ==
    [cs EXCEPT ![Len(cs)].outcome = outcome, ![Len(cs)].output = output]

\* where an exception raised in `stage` takes the invocation
Raise(i, stage, kind) ==
    /\ exc' = [exc EXCEPT ![i] = [stage |-> stage, kind |-> kind]]
    /\ pc' = [pc EXCEPT ![i] =
                IF TryCovers(stage) /\ ExceptException(kind)
                THEN "except" ELSE "raised"]

InitPipeline ==
    /\ pc = [i \in Invocations |-> "idle"]
    /\ user_query = [i \in Invocations |-> None]
    /\ retrieved_context = [i \in Invocations |-> None]
    /\ final_analysis = [i \in Invocations |-> NoAnswer]
    /\ final_verified_analysis = [i \in Invocations |-> NoAnswer]
    /\ exc = [i \in Invocations |-> NoExc]
    /\ result = [i \in Invocations |-> NoResult]
    /\ servers = {}
    /\ server_users = {}
    /\ calls = [i \in Invocations |-> << >>]
    /\ printed = [i \in Invocations |-> << >>]

NoFormatter ==
    /\ fpc = "idle"
    /\ lra = NotAnAnswer
    /\ markdown = << >>
    /\ context = NoContext
    /\ context_markdown = << >>

Init == InitPipeline /\ NoFormatter

\* run_async(run_pipeline(query)): the coroutine starts and awaits stage 1
RunPipeline(i) ==
    /\ pc[i] = "idle"
    /\ \E q \in Queries :
        /\ user_query' = [user_query EXCEPT ![i] = q]
        /\ calls' = [calls EXCEPT ![i] = <<Call(1, q)>>]
    /\ pc' = [pc EXCEPT ![i] = "retrieve"]
    /\ UNCHANGED <<retrieved_context, final_analysis, final_verified_analysis,
                   exc, result, servers, server_users, printed, fvars>>

\* stage 1 completes; on success stage 2 is awaited
RetrieveDone(i) ==
    /\ pc[i] = "retrieve"
    /\ \/ \E ctx \in Contexts(user_query[i]) :
            /\ retrieved_context' = [retrieved_context EXCEPT ![i] = ctx]
            /\ calls' = [calls EXCEPT ![i] =
                    Append(Finish(@, "ok", ctx),
                           Call(2, input_for_formulation(user_query[i], ctx)))]
            /\ pc' = [pc EXCEPT ![i] = "formulate"]
            /\ UNCHANGED exc
       \/ \E kind \in {"capability_error", "cancelled"} :
            /\ calls' = [calls EXCEPT ![i] = Finish(@, kind, None)]
            /\ Raise(i, 1, kind)
            /\ UNCHANGED retrieved_context
    /\ UNCHANGED <<user_query, final_analysis, final_verified_analysis,
                   result, servers, server_users, printed, fvars>>

\* stage 2 completes; on success the verification input is built and
\* run_verification_with_scoped_server is entered
FormulateDone(i) ==
    /\ pc[i] = "formulate"
    /\ \/ \E raw \in FormulationOutputs :
            IF LegalResearchAnswer(raw)
            THEN /\ final_analysis' = [final_analysis EXCEPT ![i] = raw]
                 /\ calls' = [calls EXCEPT ![i] = Finish(@, "ok", raw)]
                 /\ pc' = [pc EXCEPT ![i] = "connect"]
                 /\ UNCHANGED exc
            ELSE /\ calls' = [calls EXCEPT ![i] = Finish(@, "malformed_output", None)]
                 /\ Raise(i, 2, "malformed_output")
                 /\ UNCHANGED final_analysis
       \/ \E kind \in {"capability_error", "cancelled"} :
            /\ calls' = [calls EXCEPT ![i] = Finish(@, kind, None)]
            /\ Raise(i, 2, kind)
            /\ UNCHANGED final_analysis
    /\ UNCHANGED <<user_query, retrieved_context, final_verified_analysis,
                   result, servers, server_users, printed, fvars>>

\* `async with MCPServerStdio(...) as server`: __aenter__ starts the server
\* process, then the verification agent is run on it
ServerEnter(i) ==
    /\ pc[i] = "connect"
    /\ \/ /\ servers' = servers \cup {<<NewServer(i), i>>}
          /\ server_users' = server_users \cup {<<NewServer(i), i>>}
          /\ calls' = [calls EXCEPT ![i] =
                  Append(@, Call(3, verification_input(user_query[i], final_analysis[i])))]
          /\ pc' = [pc EXCEPT ![i] = "verify"]
          /\ UNCHANGED exc
       \/ \E kind \in {"tool_unavailable", "cancelled"} :
            /\ Raise(i, 3, kind)
            /\ UNCHANGED <<servers, server_users, calls>>
    /\ UNCHANGED <<user_query, retrieved_context, final_analysis,
                   final_verified_analysis, result, printed, fvars>>

\* Runner.run(verification_agent, ...) completes inside the async with
VerifyDone(i) ==
    /\ pc[i] = "verify"
    /\ \/ \E raw \in VerificationOutputs :
            IF LegalResearchAnswer(raw)
            THEN /\ final_verified_analysis' = [final_verified_analysis EXCEPT ![i] = raw]
                 /\ calls' = [calls EXCEPT ![i] = Finish(@, "ok", raw)]
                 /\ UNCHANGED exc
            ELSE /\ calls' = [calls EXCEPT ![i] = Finish(@, "malformed_output", None)]
                 /\ exc' = [exc EXCEPT ![i] = [stage |-> 3, kind |-> "malformed_output"]]
                 /\ UNCHANGED final_verified_analysis
       \/ \E kind \in {"timeout", "capability_error", "cancelled"} :
            /\ calls' = [calls EXCEPT ![i] = Finish(@, kind, None)]
            /\ exc' = [exc EXCEPT ![i] = [stage |-> 3, kind |-> kind]]
            /\ UNCHANGED final_verified_analysis
    /\ pc' = [pc EXCEPT ![i] = "disconnect"]
    /\ UNCHANGED <<user_query, retrieved_context, final_analysis,
                   result, servers, server_users, printed, fvars>>

\* the async with block is left: __aexit__, then either the return of
\* run_pipeline's try body or the exception carries on
ServerExit(i) ==
    /\ pc[i] = "disconnect"
    /\ servers' = IF AsyncWithExits(exc[i]) THEN servers \ {<<NewServer(i), i>>} ELSE servers
    /\ IF exc[i] = NoExc
       THEN /\ result' = [result EXCEPT ![i] =
                    <<retrieved_context[i],
                      ReturnedOnSuccess(final_analysis[i], final_verified_analysis[i])>>]
            /\ pc' = [pc EXCEPT ![i] = "returned"]
            /\ UNCHANGED exc
       ELSE /\ Raise(i, 3, exc[i].kind)
            /\ UNCHANGED result
    /\ UNCHANGED <<user_query, retrieved_context, final_analysis,
                   final_verified_analysis, server_users, calls, printed, fvars>>

\* except Exception as e: print(...); return retrieved_context, final_analysis
Except(i) ==
    /\ pc[i] = "except"
    /\ printed' = [printed EXCEPT ![i] = Append(@, <<"Verification failed: ", exc[i].kind>>)]
    /\ result' = [result EXCEPT ![i] =
            <<retrieved_context[i],
              ReturnedOnFallback(final_analysis[i], final_verified_analysis[i])>>]
    /\ pc' = [pc EXCEPT ![i] = "returned"]
    /\ UNCHANGED <<user_query, retrieved_context, final_analysis,
                   final_verified_analysis, exc, servers, server_users, calls, fvars>>

Next ==
    \E i \in Invocations :
        \/ RunPipeline(i)
        \/ RetrieveDone(i)
        \/ FormulateDone(i)
        \/ ServerEnter(i)
        \/ VerifyDone(i)
        \/ ServerExit(i)
        \/ Except(i)

Spec == Init /\ [][Next]_vars

(***************************************************************************)
(* The answer formatter on its own                                         *)
(***************************************************************************)
InitAnswer ==
    /\ InitPipeline
    /\ fpc = "call"
    /\ lra \in AnswerValues \cup {NotAnAnswer}
    /\ markdown = << >>
    /\ context = NoContext
    /\ context_markdown = << >>

\* st.markdown(lra_to_markdown(final_analysis))
LraToMarkdown ==
    /\ fpc = "call"
    /\ markdown' = lra_to_markdown(lra)
    /\ fpc' = "done"
    /\ UNCHANGED <<pvars, lra, context, context_markdown>>

NextAnswer == LraToMarkdown

SpecAnswer == InitAnswer /\ [][NextAnswer]_vars

(***************************************************************************)
(* The context formatter on its own                                        *)
(***************************************************************************)
InitContext ==
    /\ InitPipeline
    /\ fpc = "call"
    /\ lra = NotAnAnswer
    /\ markdown = << >>
    /\ context \in ContextValues
    /\ context_markdown = << >>

\* st.markdown(format_retrieved_context(retrieved_context))
FormatRetrievedContext ==
    /\ fpc = "call"
    /\ context_markdown' = format_retrieved_context(context)
    /\ fpc' = "done"
    /\ UNCHANGED <<pvars, lra, markdown, context>>

NextContext == FormatRetrievedContext

SpecContext == InitContext /\ [][NextContext]_vars

(***************************************************************************)
(* Properties of run_pipeline                                              *)
(***************************************************************************)
Ended(c) == c.outcome \notin {"running", "ok"}

\* call k of invocation i was made and succeeded
Succeeded(i, k) == Len(calls[i]) >= k /\ calls[i][k].outcome = "ok"

\* the pair of the stage-1 output and the stage-2 candidate of invocation i
FallbackPair(i) ==
    /\ Succeeded(i, 1) /\ Succeeded(i, 2)
    /\ result[i] = <<calls[i][1].output, calls[i][2].output>>

\* the pair of the stage-1 output and the stage-3 output of invocation i
VerifiedPair(i) ==
    /\ Succeeded(i, 1) /\ Succeeded(i, 3)
    /\ result[i] = <<calls[i][1].output, calls[i][3].output>>

\* C1 as stated: every failure of stage 3, a cancellation of the
\* verification call included, is caught and logged and run_pipeline returns
\* the stage-1 context with the unchanged stage-2 candidate; nothing raised in
\* stage 3 escapes run_pipeline.
C1_EveryStageThreeFailureIsCaught ==
    \A i \in Invocations :
        exc[i].stage = 3 =>
            /\ pc[i] \in {"disconnect", "except", "returned"}
            /\ pc[i] = "returned" =>
                    /\ FallbackPair(i)
                    /\ printed[i] = << <<"Verification failed: ", exc[i].kind>> >>

\* C1 amended: a stage-3 failure raised as an Exception (tool unavailable,
\* timeout, malformed output, capability error) is caught and logged and
\* run_pipeline returns the stage-1 context with the unchanged stage-2
\* candidate, and no such exception escapes; a cancellation of the
\* verification call is not caught: it escapes and no pair is returned.
C1_ExceptionsOfStageThreeAreCaught ==
    \A i \in Invocations :
        exc[i].stage = 3 =>
            /\ exc[i].kind \in ExceptionKinds =>
                    /\ pc[i] \in {"disconnect", "except", "returned"}
                    /\ pc[i] = "returned" =>
                            /\ FallbackPair(i)
                            /\ printed[i] = << <<"Verification failed: ", exc[i].kind>> >>
            /\ exc[i].kind \in BaseExceptionKinds =>
                    /\ pc[i] \in {"disconnect", "raised"}
                    /\ result[i] = NoResult
                    /\ printed[i] = << >>

C1_Witness ==
    \E i \in Invocations :
        /\ pc[i] = "returned"
        /\ exc[i] = [stage |-> 3, kind |-> "timeout"]
        /\ FallbackPair(i)
        /\ Len(printed[i]) = 1

\* C2: a failure of stage 1 or of stage 2 is not caught: the invocation ends
\* with that error, returns no pair and logs nothing, and the failed call is
\* the last call it made.
C2_EarlyFailuresPropagate ==
    \A i \in Invocations :
        \A k \in 1..Len(calls[i]) :
            (calls[i][k].stage \in {1, 2} /\ Ended(calls[i][k])) =>
                /\ pc[i] = "raised"
                /\ exc[i] = [stage |-> calls[i][k].stage, kind |-> calls[i][k].outcome]
                /\ result[i] = NoResult
                /\ printed[i] = << >>
                /\ Len(calls[i]) = k
                /\ \A c \in server_users : c[2] # i

C2_Witness ==
    \E i, j \in Invocations :
        /\ pc[i] = "raised" /\ exc[i].stage = 1 /\ Len(calls[i]) = 1
        /\ pc[j] = "raised" /\ exc[j].stage = 2 /\ Len(calls[j]) = 2

\* C3 as stated: every return is the pair of the stage-1 output with either
\* the whole stage-3 output (verification succeeded) or the whole stage-2
\* candidate (verification failed), and every other outcome is an error that
\* originated in stage 1 or stage 2.
C3_PairOrEarlyError ==
    \A i \in Invocations :
        /\ pc[i] = "returned" =>
                IF exc[i] = NoExc THEN VerifiedPair(i) ELSE FallbackPair(i)
        /\ pc[i] = "raised" => exc[i].stage \in {1, 2}

\* C3 amended: every return is the pair of the stage-1 output with either
\* the whole stage-3 output (verification succeeded) or the whole stage-2
\* candidate (verification failed), and every other outcome is an error that
\* originated in stage 1 or stage 2 or a cancellation raised during stage 3.
C3_PairOrEarlyErrorOrCancellation ==
    \A i \in Invocations :
        /\ pc[i] = "returned" =>
                IF exc[i] = NoExc THEN VerifiedPair(i) ELSE FallbackPair(i)
        /\ pc[i] = "raised" =>
                \/ exc[i].stage \in {1, 2}
                \/ exc[i].stage = 3 /\ exc[i].kind \in BaseExceptionKinds

C3_Witness ==
    \E i \in Invocations :
        /\ pc[i] = "returned"
        /\ exc[i] = NoExc
        /\ VerifiedPair(i)
        /\ calls[i][3].output.confidence_score # calls[i][2].output.confidence_score

\* C4: every answer a stage produced and run_pipeline accepted or returned
\* has its confidence_score in [0.0, 1.0].
C4_ConfidenceScoreInRange ==
    \A i \in Invocations :
        /\ final_analysis[i] # NoAnswer =>
                final_analysis[i].confidence_score \in 0..100
        /\ final_verified_analysis[i] # NoAnswer =>
                final_verified_analysis[i].confidence_score \in 0..100
        /\ pc[i] = "returned" => result[i][2].confidence_score \in 0..100

\* C8: the server connection of an invocation is open only between the entry
\* of the async with block and its exit: none is open during stages 1 and 2,
\* in the except handler, or after run_pipeline has returned or raised.
C8_ConnectionScopedToVerification ==
    \A i \in Invocations :
        pc[i] \in {"idle", "retrieve", "formulate", "connect", "except",
                   "returned", "raised"} =>
            \A c \in servers : c[2] # i

C8_Witness ==
    \E i \in Invocations :
        /\ pc[i] = "except"
        /\ Len(calls[i]) = 3 /\ calls[i][3].outcome = "timeout"
        /\ \E c \in server_users : c[2] = i
        /\ \A c \in servers : c[2] # i

\* C9: the calls of one invocation are stage 1, 2, 3 in this order, each at
\* most once, a call starting only after the one before it succeeded; the
\* input of stage 2 carries the query and the stage-1 output, the input of
\* stage 3 the query and the stage-2 candidate.
C9_StagesInSequence ==
    \A i \in Invocations :
        /\ Len(calls[i]) <= 3
        /\ \A k \in 1..Len(calls[i]) :
                /\ calls[i][k].stage = k
                /\ k < Len(calls[i]) => calls[i][k].outcome = "ok"
        /\ Len(calls[i]) >= 1 => calls[i][1].input = user_query[i]
        /\ Len(calls[i]) >= 2 =>
                /\ calls[i][2].input.Query = user_query[i]
                /\ calls[i][2].input.Context = calls[i][1].output
        /\ Len(calls[i]) >= 3 =>
                /\ calls[i][3].input.Query = user_query[i]
                /\ calls[i][3].input.Analysis.analysis = calls[i][2].output.analysis
                /\ calls[i][3].input.Analysis.confidence_score
                        = calls[i][2].output.confidence_score

C9_Witness ==
    \E i \in Invocations :
        /\ Len(calls[i]) = 3
        /\ calls[i][3].outcome = "ok"
        /\ calls[i][3].input.Analysis.confidence_score = 150

\* C10: no server connection is opened or used by two invocations, and the
\* pair an invocation returns is made of its own stage outputs whatever the
\* other invocations did.
C10_InvocationsIndependent ==
    /\ \A c, d \in server_users : c[1] = d[1] => c[2] = d[2]
    /\ \A c, d \in servers : c[1] = d[1] => c[2] = d[2]
    /\ \A i \in Invocations :
            pc[i] = "returned" =>
                /\ Succeeded(i, 1) /\ calls[i][1].input = user_query[i]
                /\ result[i][1] = calls[i][1].output
                /\ \E k \in 2..Len(calls[i]) :
                        /\ calls[i][k].outcome = "ok"
                        /\ result[i][2] = calls[i][k].output

C10_Witness ==
    \E i, j \in Invocations :
        /\ i # j
        /\ pc[i] = "returned" /\ exc[i].stage = 3
        /\ pc[j] = "returned" /\ exc[j] = NoExc
        /\ user_query[i] # user_query[j]
        /\ result[i] # result[j]
        /\ \E c, d \in server_users : c[2] = i /\ d[2] = j /\ c[1] # d[1]

(***************************************************************************)
(* Properties of the formatters                                            *)
(***************************************************************************)
\* text.split(sep): the pieces of t between the occurrences of sep
Split(t, sep) ==
    LET at == {k \in 1..Len(t) : t[k] = sep}
        nth(j) == IF j = 0 THEN 0
                  ELSE IF j = Cardinality(at) + 1 THEN Len(t) + 1
                  ELSE CHOOSE p \in at : Cardinality({q \in at : q < p}) = j - 1
    IN  [j \in 1..(Cardinality(at) + 1) |-> SubSeq(t, nth(j - 1) + 1, nth(j) - 1)]

Last(sq) == sq[Len(sq)]

Count(t, S) == Cardinality({k \in 1..Len(t) : t[k] \in S})

Occurs(x, t) == \E k \in 1..Len(t) : t[k] = x

\* the metadata line of the rendered answer
MetadataLine == Last(Split(markdown, "\n\n"))

\* C5: for a score s in [0.0, 1.0] the metadata line carries exactly one
\* severity marker: the high one iff s >= 0.8, the medium one iff
\* 0.5 <= s < 0.8, the low one iff s < 0.5.
C5_OneMarkerByThreshold ==
    (fpc = "done" /\ lra.kind # "other" /\ lra.confidence_score # << >>) =>
        LET s == lra.confidence_score[1]
        IN  /\ Count(MetadataLine, {GREEN, YELLOW, RED}) = 1
            /\ Occurs(GREEN, MetadataLine) <=> s >= 80
            /\ Occurs(YELLOW, MetadataLine) <=> (50 <= s /\ s < 80)
            /\ Occurs(RED, MetadataLine) <=> s < 50

C5_Witness ==
    /\ fpc = "done"
    /\ lra.confidence_score = <<80>>
    /\ lra.judgement = "affirmed"
    /\ Occurs(GREEN, MetadataLine)

\* the bullets of the Citations section of the rendered answer
Bullets ==
    LET blocks == Split(markdown, "\n\n")
        at == CHOOSE k \in 1..Len(blocks) : blocks[k] = <<"#### Citations">>
    IN  Split(blocks[at + 1], "\n")

\* what follows the label in a bullet
Clause(bullet, c) ==
    SubSeq(bullet, (IF Truthy(c.link) THEN 7 ELSE 3), Len(bullet))

Optional(present, x) == IF present THEN <<x>> ELSE << >>

ScenarioD ==
    [title |-> "Case X", citation |-> "[2020] 1 SCC 1", link |-> None,
     jurisdiction |-> "Federal", SCC_citation |-> TRUE]

\* C6: the metadata clause of every citation bullet is the separator-joined
\* list of the non-empty parts among the citation string, the jurisdiction
\* and the supreme-court marker (when the flag is set), in this order, and
\* there is no clause when all three are empty.
C6_CitationClause ==
    (fpc = "done" /\ lra.kind # "other" /\ Len(lra.citations) > 0) =>
        /\ Len(Bullets) = Len(lra.citations)
        /\ \A k \in 1..Len(lra.citations) :
            LET c == lra.citations[k]
                parts == Optional(Truthy(c.citation), c.citation)
                         \o Optional(Truthy(c.jurisdiction), c.jurisdiction)
                         \o Optional(c.SCC_citation, SCC_MARK)
            IN  /\ Clause(Bullets[k], c) =
                        IF parts = << >> THEN << >>
                        ELSE <<DASH>> \o JoinTokens(parts, SEP)
                /\ c = ScenarioD =>
                        Clause(Bullets[k], c) =
                            <<DASH, "[2020] 1 SCC 1", SEP, "Federal", SEP, SCC_MARK>>

C6_Witness ==
    /\ fpc = "done"
    /\ lra.kind = "model"
    /\ Len(lra.citations) > 0
    /\ lra.citations[1] = ScenarioD
    /\ Bullets[1] = <<"- ", "Case X", DASH, "[2020] 1 SCC 1", SEP, "Federal", SEP, SCC_MARK>>

\* the lines of the rendered context
ContextLines == Split(context_markdown, "\n")

\* title, else source, else Document i; content, else text, else the text
\* of the element
TitleByFallback(item, i) ==
    IF Truthy(item.title) THEN item.title
    ELSE IF Truthy(item.source) THEN item.source
    ELSE "Document " \o ToString(i)

BodyByFallback(item) ==
    IF Truthy(item.content) THEN item.content
    ELSE IF Truthy(item.text) THEN item.text
    ELSE str(item)

\* C7 as stated: a list renders as one numbered block per element in input
\* order, every element, mapping or not, titled by title, else source, else
\* Document i, with the body content, else text, else the element's text.
C7_EveryElementTitled ==
    (fpc = "done" /\ context.kind = "list") =>
        /\ Len(ContextLines) = 1 + 3 * Len(context.items)
        /\ \A i \in 1..Len(context.items) :
            /\ ContextLines[3 * i] =
                    <<"**", ToString(i), ". ", TitleByFallback(context.items[i], i), "**">>
            /\ ContextLines[3 * i + 1] = <<"> ", BodyByFallback(context.items[i])>>

\* C7 amended: a list renders as one numbered block per element in input
\* order; an element that is a mapping is titled by title, else source, else
\* Document i, with the body content, else text, else the element's text; an
\* element that is not a mapping gets its number with no title and its text
\* as the body.
C7_MappingsTitled ==
    (fpc = "done" /\ context.kind = "list") =>
        /\ Len(ContextLines) = 1 + 3 * Len(context.items)
        /\ ContextLines[1] = <<"**Source documents:**">>
        /\ \A i \in 1..Len(context.items) :
            /\ ContextLines[3 * i - 1] = << >>
            /\ ContextLines[3 * i] =
                    IF context.items[i].isdict
                    THEN <<"**", ToString(i), ". ",
                           TitleByFallback(context.items[i], i), "**">>
                    ELSE <<"**", ToString(i), ".**">>
            /\ ContextLines[3 * i + 1] = <<"> ", BodyByFallback(context.items[i])>>

C7_Witness ==
    /\ fpc = "done"
    /\ context.kind = "list"
    /\ Len(context.items) = 2
    /\ ~context.items[1].isdict
    /\ context.items[2].isdict /\ context.items[2].title = "" /\ context.items[2].source = None
    /\ ContextLines[6] = <<"**", "2", ". ", "Document 2", "**">>
====
